---- MODULE Spec2Model ----
(***************************************************************************)
(* A model of sqs.py: thin wrappers over a message-queue client, and the   *)
(* queue service they call.  The wrappers (sqs_create_queue, ...,          *)
(* process_queue) are translated from the Python source.  The service      *)
(* behind client.* is not part of the source; it is modelled from the      *)
(* transport contract and the per-message state machine of spec.md         *)
(* (sections 3, 4.2 and 6).                                                *)
(*                                                                         *)
(* Four specifications share the variables:                                *)
(*   SpecRegistry    creation and deletion of queues                       *)
(*   Spec            messages of the main queue, concurrent process_queue  *)
(*   SpecVisibility  poll_queue and change_message_visibility_timeout      *)
(*   SpecBatch       send_batch_messages and purge_queue                   *)
(***************************************************************************)
EXTENDS Integers, Sequences, FiniteSets, TLC

VARIABLES
    queues,       \* service: queue name -> attributes of the queue
    cooldown,     \* service: names deleted, and purges made, in the last 60 seconds
    everCreated,  \* history: names of the queues created so far
    msg,          \* service: message id -> state, receive count, time left
    pc,           \* per caller of process_queue: position in the function
    objects,      \* per caller: the receipts returned by its poll_queue
    idx,          \* per caller: index of the loop over objects['Messages']
    log,          \* per caller: the client calls issued by the current call
    printed,      \* per caller: receipts whose print (line 250) completed
    acked,        \* history: messages whose delete_message call returned
    held,         \* receipts a direct caller of poll_queue holds
    lastCall      \* the most recent wrapper call and its outcome

vars == <<queues, cooldown, everCreated, msg, pc, objects, idx, log, printed,
          acked, held, lastCall>>

regVars  == <<queues, cooldown, everCreated>>
callVars == <<pc, objects, idx, log, printed>>

----------------------------------------------------------------------------
(* Bounds of the model *)

MaxMsgs == 2
NumCallers == 2
TickSeconds == 5

(* Constants of the program *)

QUEUE_NAME == "example_queue"
QUEUE_NAME_DEAD == "example_dead_queue"
QUEUE_MAIN == "main_queue"

MAX_RECEIVE_COUNT == 3
VISIBILITY_TIMEOUT == 30
DEFAULT_MAX_MESSAGES == 10
DEFAULT_TIMEOUT == 5
BATCH_LIMIT == 10

QueueNames == {QUEUE_NAME, QUEUE_NAME_DEAD, QUEUE_MAIN}
Callers == 1..NumCallers

----------------------------------------------------------------------------
(* Values *)

\* The sequences that list every element of S exactly once.
Orderings(S) ==
    {s \in [1..Cardinality(S) -> S] : \A i, j \in 1..Cardinality(S) : s[i] = s[j] => i = j}

Range(s) == {s[i] : i \in 1..Len(s)}

\* response['QueueUrl'] and attributes['QueueArn'] are strings derived from
\* the queue's name; they are different strings, neither is the name.
URL(name) == <<"https://queue", name>>
ARN(name) == <<"arn:aws:sqs", name>>
NoArn == <<"", "">>
NameOfUrl(url) == url[2]

NoPolicy == [deadLetterTargetArn |-> NoArn, maxReceiveCount |-> 0]
NoQueue == [exists |-> FALSE, RedrivePolicy |-> NoPolicy]
PlainQueue == [exists |-> TRUE, RedrivePolicy |-> NoPolicy]

NoReceipt == <<0, 0>>
NoCall == [op |-> "none"]

----------------------------------------------------------------------------
(* The queue service: queues (transport contract, createQueue/deleteQueue) *)

\* createQueue is refused for a name deleted within the last 60 seconds
\* (QueueDeletedRecently), and for a name in use by a queue with other
\* attributes.
DeletedRecently(cd, name) == name \in cd
NameInUse(q, name, attrs) == q[name].exists /\ q[name] # attrs
CreateRejected(q, cd, name, attrs) ==
    DeletedRecently(cd, name) \/ NameInUse(q, name, attrs)

CreateQueue(q, cd, name, attrs) ==
    IF CreateRejected(q, cd, name, attrs)
    THEN [ok |-> FALSE, queues |-> q]
    ELSE [ok |-> TRUE, queues |-> [q EXCEPT ![name] = attrs]]

\* deleteQueue of a queue that does not exist is a transport error.
DeleteQueueFails(q, name) == ~q[name].exists

QueueDoesNotExist == <<"error", "QueueDoesNotExist">>

----------------------------------------------------------------------------
(* The wrappers: queues *)

sqs_create_queue(q, cd, name) == CreateQueue(q, cd, name, PlainQueue)

policy_off_by_one(dep_arn) ==
    [deadLetterTargetArn |-> dep_arn, maxReceiveCount |-> MAX_RECEIVE_COUNT + 1]

policy(dep_arn) ==
    [deadLetterTargetArn |-> dep_arn, maxReceiveCount |-> MAX_RECEIVE_COUNT]

sqs_create_queue_dead_dependency(q, cd, dep_arn, name) ==
    CreateQueue(q, cd, name, [exists |-> TRUE, RedrivePolicy |-> policy(dep_arn)])

get_queue_arn_unchecked(q, name) == ARN(name)

\* resource.get_queue_by_name raises when no queue has the name.
get_queue_arn(q, name) ==
    IF q[name].exists THEN ARN(name) ELSE QueueDoesNotExist

\* The url argument of sqs_delete_queue: a str, a set (iterated in an order
\* the caller does not control), or an object of another type.
UrlArguments ==
    {[type |-> "str", urls |-> <<URL(n)>>] : n \in QueueNames}
    \cup {[type |-> "set", urls |-> o] : o \in UNION {Orderings({URL(n) : n \in S}) : S \in SUBSET QueueNames}}
    \cup {[type |-> "other", urls |-> <<>>]}

\* The index of the first url whose delete_queue raises, 0 when none does.
FirstFailure(q, urls) ==
    LET bad == {i \in 1..Len(urls) : DeleteQueueFails(q, NameOfUrl(urls[i]))}
    IN IF bad = {} THEN 0 ELSE CHOOSE i \in bad : \A j \in bad : i <= j

\* The names whose client.delete_queue call was made and succeeded.
sqs_delete_queue(q, arg) ==
    LET k == FirstFailure(q, arg.urls)
        done == IF k = 0 THEN Len(arg.urls) ELSE k - 1
    IN IF arg.type = "other"
       THEN [ok |-> FALSE, error |-> "TypeError", deleted |-> {}]
       ELSE [ok |-> k = 0,
             error |-> IF k = 0 THEN "none" ELSE "TransportError",
             deleted |-> {NameOfUrl(arg.urls[i]) : i \in 1..done}]

----------------------------------------------------------------------------
(* Calls of the queue wrappers *)

Pre == [queues |-> queues, cooldown |-> cooldown]

CallCreateQueue(name) ==
    LET r == sqs_create_queue(queues, cooldown, name)
    IN /\ queues' = r.queues
       /\ everCreated' = IF r.ok THEN everCreated \cup {name} ELSE everCreated
       /\ lastCall' = [op |-> "sqs_create_queue", name |-> name, ok |-> r.ok, pre |-> Pre]
       /\ UNCHANGED <<cooldown, msg, callVars, acked, held>>

\* Line 322: sqs_create_queue_dead_dependency(client,
\*              dep_arn=get_queue_arn(resource, name=target), name=name)
CallCreateWithDeadLetter(target, name) ==
    LET arn == get_queue_arn(queues, target)
        r == IF arn = QueueDoesNotExist
             THEN [ok |-> FALSE, queues |-> queues]
             ELSE sqs_create_queue_dead_dependency(queues, cooldown, arn, name)
    IN /\ queues' = r.queues
       /\ everCreated' = IF r.ok THEN everCreated \cup {name} ELSE everCreated
       /\ lastCall' = [op |-> "sqs_create_queue_dead_dependency", target |-> target,
                       name |-> name, ok |-> r.ok, pre |-> Pre]
       /\ UNCHANGED <<cooldown, msg, callVars, acked, held>>

CallDeleteQueue(arg) ==
    LET r == sqs_delete_queue(queues, arg)
    IN /\ queues' = [n \in QueueNames |-> IF n \in r.deleted THEN NoQueue ELSE queues[n]]
       /\ cooldown' = cooldown \cup r.deleted
       /\ lastCall' = [op |-> "sqs_delete_queue", arg |-> arg, ok |-> r.ok,
                       error |-> r.error, pre |-> Pre]
       /\ UNCHANGED <<everCreated, msg, callVars, acked, held>>

\* 60 seconds after its deletion a name can be used again (line 369).
CooldownExpires(name) ==
    /\ name \in cooldown
    /\ cooldown' = cooldown \ {name}
    /\ lastCall' = NoCall
    /\ UNCHANGED <<queues, everCreated, msg, callVars, acked, held>>

NoQueues == [n \in QueueNames |-> NoQueue]
NoMessages(ids) == [m \in ids |-> [state |-> "unsent", rc |-> 0, remaining |-> 0]]
IdleCallers ==
    /\ pc = [c \in Callers |-> "idle"]
    /\ objects = [c \in Callers |-> <<>>]
    /\ idx = [c \in Callers |-> 0]
    /\ log = [c \in Callers |-> <<>>]
    /\ printed = [c \in Callers |-> <<>>]

InitRegistry ==
    /\ queues = NoQueues
    /\ cooldown = {}
    /\ everCreated = {}
    /\ msg = NoMessages({})
    /\ IdleCallers
    /\ acked = {}
    /\ held = {}
    /\ lastCall = NoCall

\* The names as the program uses them: lines 302 and 316 create the plain
\* queues QUEUE_NAME (the default) and QUEUE_NAME_DEAD, line 322 creates
\* QUEUE_MAIN (the default) with QUEUE_NAME_DEAD as its dead-letter queue.
NextRegistry ==
    \/ \E name \in {QUEUE_NAME, QUEUE_NAME_DEAD} : CallCreateQueue(name)
    \/ CallCreateWithDeadLetter(QUEUE_NAME_DEAD, QUEUE_MAIN)
    \/ \E arg \in UrlArguments : CallDeleteQueue(arg)
    \/ \E name \in QueueNames : CooldownExpires(name)

SpecRegistry == InitRegistry /\ [][NextRegistry]_vars

----------------------------------------------------------------------------
(* The queue service: messages of one queue (the state machine of a        *)
(* message: unsent, visible, inflight until its deadline, deleted, dead)   *)

MsgIds == 1..MaxMsgs
WorkQueue == QUEUE_MAIN

Visible == {m \in DOMAIN msg : msg[m].state = "visible"}
InFlight == {m \in DOMAIN msg : msg[m].state = "inflight"}

\* A receipt names one delivery of one message: <<message id, delivery number>>.
\* It is valid while that delivery's visibility window is open.
ValidReceipt(r) ==
    /\ r[1] \in DOMAIN msg
    /\ msg[r[1]].state = "inflight"
    /\ msg[r[1]].rc = r[2]

\* send: the message becomes visible.
Send(m) == [msg EXCEPT ![m] = [state |-> "visible", rc |-> 0, remaining |-> 0]]

\* receive(maxCount): any maxCount or fewer of the visible messages, in any
\* order; each becomes inflight for the queue's visibility timeout and its
\* receive count goes up by one.
Receive(ms) ==
    [m \in DOMAIN msg |->
        IF m \in Range(ms)
        THEN [state |-> "inflight", rc |-> msg[m].rc + 1, remaining |-> VISIBILITY_TIMEOUT]
        ELSE msg[m]]

Responses(maxCount) ==
    UNION {Orderings(S) : S \in {T \in SUBSET Visible : Cardinality(T) <= maxCount}}

\* The end of a visibility window: the message is visible again, or, once
\* its receive count has reached the redrive policy's maxReceiveCount, it
\* is moved to the dead-letter queue.
Expired(q, r) ==
    LET pol == q[WorkQueue].RedrivePolicy
    IN IF pol # NoPolicy /\ r.rc >= pol.maxReceiveCount
       THEN [state |-> "dead", rc |-> r.rc, remaining |-> 0]
       ELSE [state |-> "visible", rc |-> r.rc, remaining |-> 0]

\* changeVisibility: the window of the delivery now ends `seconds` from now.
ChangeVisibility(r, seconds) ==
    IF seconds = 0
    THEN [msg EXCEPT ![r[1]] = Expired(queues, msg[r[1]])]
    ELSE [msg EXCEPT ![r[1]].remaining = seconds]

\* deleteMessage: the message is gone.
DeleteMessage(r) == [msg EXCEPT ![r[1]].state = "deleted", ![r[1]].remaining = 0]

\* TickSeconds pass.
Tick ==
    /\ InFlight # {}
    /\ msg' = [m \in DOMAIN msg |->
                 IF msg[m].state # "inflight" THEN msg[m]
                 ELSE IF msg[m].remaining > TickSeconds
                      THEN [msg[m] EXCEPT !.remaining = msg[m].remaining - TickSeconds]
                      ELSE Expired(queues, msg[m])]
    /\ lastCall' = NoCall
    /\ UNCHANGED <<regVars, callVars, acked, held>>

----------------------------------------------------------------------------
(* The wrappers: messages *)

ReceiptsOf(ms) == [i \in 1..Len(ms) |-> <<ms[i], msg[ms[i]].rc + 1>>]

\* The possible outcomes of poll_queue: the response's 'Messages' (their
\* receipt handles, in the order returned) and the service's messages after.
poll_queue(max_messages) ==
    {[Messages |-> ReceiptsOf(ms), msg |-> Receive(ms)] : ms \in Responses(max_messages)}

delete_message_from_queue_no_call(receipt) == [ok |-> TRUE, msg |-> msg]

\* The outcome of delete_message_from_queue: the call returns, or raises for
\* a receipt whose window has ended.
delete_message_from_queue(receipt) ==
    IF ValidReceipt(receipt)
    THEN [ok |-> TRUE, msg |-> DeleteMessage(receipt)]
    ELSE [ok |-> FALSE, msg |-> msg]

\* send_message_to_queue(client, url, msg)
CallSendMessage(m) ==
    /\ msg[m].state = "unsent"
    /\ msg' = Send(m)
    /\ lastCall' = NoCall
    /\ UNCHANGED <<regVars, callVars, acked, held>>

ApiReceive(max) == [api |-> "receive_message", max |-> max, receipt |-> NoReceipt]
ApiDelete(r) == [api |-> "delete_message", max |-> 0, receipt |-> r]
ApiVisibility(r) == [api |-> "change_message_visibility", max |-> 0, receipt |-> r]

\* process_queue, lines 247-248: one poll, then the loop or the return.
process_queue_poll(c) ==
    /\ pc[c] \in {"idle", "returned", "raised"}
    /\ \E out \in poll_queue(DEFAULT_MAX_MESSAGES) :
        /\ msg' = out.msg
        /\ objects' = [objects EXCEPT ![c] = out.Messages]
        /\ log' = [log EXCEPT ![c] = <<ApiReceive(DEFAULT_MAX_MESSAGES)>>]
        /\ printed' = [printed EXCEPT ![c] = <<>>]
        /\ IF Len(out.Messages) # 0
           THEN pc' = [pc EXCEPT ![c] = "print"] /\ idx' = [idx EXCEPT ![c] = 1]
           ELSE pc' = [pc EXCEPT ![c] = "returned"] /\ idx' = [idx EXCEPT ![c] = 0]
    /\ UNCHANGED <<regVars, acked, held, lastCall>>

process_queue_print_swallowed(c) ==
    /\ pc[c] = "print"
    /\ \/ printed' = [printed EXCEPT ![c] = Append(@, objects[c][idx[c]])]
       \/ printed' = printed
    /\ pc' = [pc EXCEPT ![c] = "delete"]
    /\ UNCHANGED <<regVars, msg, objects, idx, log, acked, held, lastCall>>

process_queue_print_requeues(c) ==
    /\ pc[c] = "print"
    /\ \/ /\ printed' = [printed EXCEPT ![c] = Append(@, objects[c][idx[c]])]
          /\ pc' = [pc EXCEPT ![c] = "delete"]
          /\ UNCHANGED <<msg, log>>
       \/ /\ pc' = [pc EXCEPT ![c] = "raised"]
          /\ msg' = IF ValidReceipt(objects[c][idx[c]])
                    THEN ChangeVisibility(objects[c][idx[c]], 0) ELSE msg
          /\ log' = [log EXCEPT ![c] = Append(@, ApiVisibility(objects[c][idx[c]]))]
          /\ UNCHANGED printed
    /\ UNCHANGED <<regVars, objects, idx, acked, held, lastCall>>

\* process_queue, line 250: the message is processed (printed); the print
\* completes, or it raises and the exception leaves process_queue.
process_queue_print(c) ==
    /\ pc[c] = "print"
    /\ \/ /\ printed' = [printed EXCEPT ![c] = Append(@, objects[c][idx[c]])]
          /\ pc' = [pc EXCEPT ![c] = "delete"]
       \/ /\ pc' = [pc EXCEPT ![c] = "raised"]
          /\ UNCHANGED printed
    /\ UNCHANGED <<regVars, msg, objects, idx, log, acked, held, lastCall>>

process_queue_delete_first_receipt(c) ==
    /\ pc[c] = "delete"
    /\ LET out == delete_message_from_queue(objects[c][1])
       IN /\ msg' = out.msg
          /\ log' = [log EXCEPT ![c] = Append(@, ApiDelete(objects[c][1]))]
          /\ acked' = IF out.ok THEN acked \cup {objects[c][1][1]} ELSE acked
          /\ IF ~out.ok
             THEN pc' = [pc EXCEPT ![c] = "raised"] /\ UNCHANGED idx
             ELSE IF idx[c] < Len(objects[c])
                  THEN pc' = [pc EXCEPT ![c] = "print"] /\ idx' = [idx EXCEPT ![c] = @ + 1]
                  ELSE pc' = [pc EXCEPT ![c] = "returned"] /\ UNCHANGED idx
    /\ UNCHANGED <<regVars, objects, printed, held, lastCall>>

\* process_queue, line 251, and the loop's step: the message just printed is
\* deleted with its own receipt handle; an exception leaves process_queue.
process_queue_delete(c) ==
    /\ pc[c] = "delete"
    /\ LET receipt == objects[c][idx[c]]
           out == delete_message_from_queue(receipt)
       IN /\ msg' = out.msg
          /\ log' = [log EXCEPT ![c] = Append(@, ApiDelete(receipt))]
          /\ acked' = IF out.ok THEN acked \cup {receipt[1]} ELSE acked
          /\ IF ~out.ok
             THEN pc' = [pc EXCEPT ![c] = "raised"] /\ UNCHANGED idx
             ELSE IF idx[c] < Len(objects[c])
                  THEN pc' = [pc EXCEPT ![c] = "print"] /\ idx' = [idx EXCEPT ![c] = @ + 1]
                  ELSE pc' = [pc EXCEPT ![c] = "returned"] /\ UNCHANGED idx
    /\ UNCHANGED <<regVars, objects, printed, held, lastCall>>

\* The queues as lines 316-325 leave them: the dead-letter queue, then the
\* main queue whose redrive policy names the dead-letter queue's ARN.
QueuesOfMain ==
    LET dead == sqs_create_queue(NoQueues, {}, QUEUE_NAME_DEAD).queues
    IN sqs_create_queue_dead_dependency(
           dead, {}, get_queue_arn(dead, QUEUE_NAME_DEAD), QUEUE_MAIN).queues

Init ==
    /\ queues = QueuesOfMain
    /\ cooldown = {}
    /\ everCreated = {QUEUE_NAME_DEAD, QUEUE_MAIN}
    /\ msg = NoMessages(MsgIds)
    /\ IdleCallers
    /\ acked = {}
    /\ held = {}
    /\ lastCall = NoCall

Next ==
    \/ \E m \in MsgIds : CallSendMessage(m)
    \/ \E c \in Callers : process_queue_poll(c)
    \/ \E c \in Callers : process_queue_print(c)
    \/ \E c \in Callers : process_queue_delete(c)
    \/ Tick

Spec == Init /\ [][Next]_vars

----------------------------------------------------------------------------
(* A direct caller of poll_queue and change_message_visibility_timeout *)

Timeouts == {0, DEFAULT_TIMEOUT, 4 * DEFAULT_TIMEOUT}

change_message_visibility_timeout_default(receipt, timeout) ==
    IF ValidReceipt(receipt)
    THEN [ok |-> TRUE, msg |-> ChangeVisibility(receipt, DEFAULT_TIMEOUT)]
    ELSE [ok |-> FALSE, msg |-> msg]

\* The outcome of change_message_visibility_timeout: the call returns, or
\* raises for a receipt whose window has ended.
change_message_visibility_timeout(receipt, timeout) ==
    IF ValidReceipt(receipt)
    THEN [ok |-> TRUE, msg |-> ChangeVisibility(receipt, timeout)]
    ELSE [ok |-> FALSE, msg |-> msg]

CallPollQueue(max_messages) ==
    /\ \E out \in poll_queue(max_messages) :
        /\ msg' = out.msg
        /\ held' = held \cup Range(out.Messages)
        /\ lastCall' = [op |-> "poll_queue", max |-> max_messages, n |-> Len(out.Messages)]
    /\ UNCHANGED <<regVars, callVars, acked>>

CallChangeVisibility(receipt, timeout) ==
    /\ receipt \in held
    /\ LET out == change_message_visibility_timeout(receipt, timeout)
       IN /\ msg' = out.msg
          /\ lastCall' = [op |-> "change_message_visibility_timeout",
                          receipt |-> receipt, timeout |-> timeout, ok |-> out.ok,
                          prev |-> IF /\ lastCall.op = "change_message_visibility_timeout"
                                      /\ lastCall.receipt = receipt /\ lastCall.ok
                                   THEN lastCall.timeout ELSE -1]
    /\ UNCHANGED <<regVars, callVars, acked, held>>

NextVisibility ==
    \/ \E m \in MsgIds : CallSendMessage(m)
    \/ \E max_messages \in {1, DEFAULT_MAX_MESSAGES} : CallPollQueue(max_messages)
    \/ \E receipt \in held, timeout \in Timeouts : CallChangeVisibility(receipt, timeout)
    \/ Tick

SpecVisibility == Init /\ [][NextVisibility]_vars

----------------------------------------------------------------------------
(* Batches *)

PURGE == "purge_queue"

\* sendBatch: 1 to 10 entries; each entry succeeds or fails on its own, and
\* the entries that succeed are enqueued.
SendBatchRejected(entries) == Len(entries) < 1 \/ Len(entries) > BATCH_LIMIT

SendBatch(entries) ==
    [m \in DOMAIN msg |->
        IF \E i \in 1..Len(entries) : entries[i].Id = m
        THEN LET e == CHOOSE e \in Range(entries) : e.Id = m
             IN [state |-> IF e.malformed THEN "failed" ELSE "visible",
                 rc |-> 0, remaining |-> 0]
        ELSE msg[m]]

\* The ids of the entries of s whose malformed flag is `want`, in the order of s.
RECURSIVE SelectIds(_, _)
SelectIds(s, want) ==
    IF s = <<>> THEN <<>>
    ELSE IF Head(s).malformed = want
         THEN <<Head(s).Id>> \o SelectIds(Tail(s), want)
         ELSE SelectIds(Tail(s), want)

send_batch_messages_all_or_nothing(msgs) ==
    IF SendBatchRejected(msgs) \/ \E i \in 1..Len(msgs) : msgs[i].malformed
    THEN [ok |-> FALSE, Successful |-> <<>>, Failed |-> <<>>, msg |-> msg]
    ELSE [ok |-> TRUE, Successful |-> SelectIds(msgs, FALSE), Failed |-> <<>>,
          msg |-> SendBatch(msgs)]

\* The outcome of send_batch_messages: the response, returned as received
\* ('Successful' and 'Failed' entries by Id), or an exception for a batch the
\* service refuses as a whole.
send_batch_messages(msgs) ==
    IF SendBatchRejected(msgs)
    THEN [ok |-> FALSE, Successful |-> <<>>, Failed |-> <<>>, msg |-> msg]
    ELSE [ok |-> TRUE, Successful |-> SelectIds(msgs, FALSE),
          Failed |-> SelectIds(msgs, TRUE), msg |-> SendBatch(msgs)]

Unsent == {m \in DOMAIN msg : msg[m].state = "unsent"}

\* Line 354: n entries with the Ids 1..n; here those in `bad` are malformed.
Batch(n, bad) == [i \in 1..n |-> [Id |-> i, malformed |-> i \in bad]]

CallSendBatch(msgs) ==
    LET out == send_batch_messages(msgs)
    IN /\ msg' = out.msg
       /\ lastCall' = [op |-> "send_batch_messages", msgs |-> msgs, ok |-> out.ok,
                       Successful |-> out.Successful, Failed |-> out.Failed]
       /\ UNCHANGED <<regVars, callVars, acked, held>>

\* An Id (a uuid) is used for one message only.
SendFreshBatch(n) ==
    /\ \A i \in 1..n : i \in Unsent
    /\ \E bad \in SUBSET (1..n) : CallSendBatch(Batch(n, bad))

\* purge_queue: every message of the queue is deleted; a second purge within
\* 60 seconds is refused (line 363).
CallPurgeQueue ==
    /\ IF PURGE \in cooldown
       THEN /\ lastCall' = [op |-> "purge_queue", ok |-> FALSE]
            /\ UNCHANGED <<msg, cooldown>>
       ELSE /\ lastCall' = [op |-> "purge_queue", ok |-> TRUE]
            /\ cooldown' = cooldown \cup {PURGE}
            /\ msg' = [m \in DOMAIN msg |->
                         IF msg[m].state \in {"visible", "inflight"}
                         THEN [msg[m] EXCEPT !.state = "deleted", !.remaining = 0]
                         ELSE msg[m]]
    /\ UNCHANGED <<queues, everCreated, callVars, acked, held>>

InitBatch ==
    /\ queues = sqs_create_queue(NoQueues, {}, QUEUE_NAME).queues
    /\ cooldown = {}
    /\ everCreated = {QUEUE_NAME}
    /\ msg = NoMessages(1..BATCH_LIMIT)
    /\ IdleCallers
    /\ acked = {}
    /\ held = {}
    /\ lastCall = NoCall

NextBatch ==
    \/ \E n \in 0..BATCH_LIMIT : SendFreshBatch(n)
    \/ CallPurgeQueue
    \/ CooldownExpires(PURGE)

SpecBatch == InitBatch /\ [][NextBatch]_vars

----------------------------------------------------------------------------
(* Properties of process_queue *)

CallOver(c) == pc[c] \in {"returned", "raised"}
Issued(c, call) == \E i \in 1..Len(log[c]) : log[c][i] = call
\* The call of c ended in the print of its idx-th message raising.
PrintRaised(c) == pc[c] = "raised" /\ Len(printed[c]) < idx[c]

\* C1: process_queue deletes a received message only if its processing (the
\* print of line 250) completed: a delete_message is issued only for a
\* receipt already processed; when the call is over, a delete was issued for
\* a returned message exactly if its processing completed; a message whose
\* processing raised gets no delete and no change of visibility from the
\* call, so a call whose processing always fails deletes nothing.
C1_DeleteOnlyAfterProcessing ==
    \A c \in Callers :
        /\ \A r \in Range(objects[c]) :
              Issued(c, ApiDelete(r)) => r \in Range(printed[c])
        /\ \A i \in 1..Len(log[c]) :
              /\ log[c][i].api # "change_message_visibility"
              /\ log[c][i].api = "delete_message" => log[c][i].receipt \in Range(objects[c])
        /\ CallOver(c) =>
              \A r \in Range(objects[c]) :
                  r \in Range(printed[c]) <=> Issued(c, ApiDelete(r))
        /\ PrintRaised(c) =>
              /\ ~Issued(c, ApiDelete(objects[c][idx[c]]))
              /\ (printed[c] = <<>> => Len(log[c]) = 1)

\* A call received two messages, the processing of the first raised, and
\* both are still in flight, neither deleted.
C1_Witness ==
    \E c \in Callers :
        /\ PrintRaised(c) /\ printed[c] = <<>> /\ Len(objects[c]) = 2
        /\ \A r \in Range(objects[c]) : ValidReceipt(r)

\* C10 as stated: every call of process_queue that is over has issued one
\* receive for at most 10 messages and then one delete per message returned,
\* each with that message's receipt handle, in the order returned.
C10_OneDeletePerMessage ==
    \A c \in Callers :
        CallOver(c) =>
            log[c] = <<ApiReceive(10)>> \o [i \in 1..Len(objects[c]) |-> ApiDelete(objects[c][i])]

\* C10 as amended: a call issues one receive for at most 10 messages, first,
\* and never another; the k-th call after it is the delete of the k-th
\* message returned, with that message's receipt handle; a call that returns
\* has issued one delete per message returned; a call that an exception
\* leaves at its idx-th message has issued the deletes of the messages before
\* it, and that message's when it is the delete that raised; no delete is
\* issued for a message the receive did not return.
C10_Amended ==
    \A c \in Callers :
        pc[c] # "idle" =>
            /\ log[c][1] = ApiReceive(10)
            /\ Len(objects[c]) <= 10
            /\ Len(log[c]) <= 1 + Len(objects[c])
            /\ \A k \in 1..(Len(log[c]) - 1) : log[c][k + 1] = ApiDelete(objects[c][k])
            /\ pc[c] = "returned" => Len(log[c]) = 1 + Len(objects[c])
            /\ pc[c] = "raised" =>
                  Len(log[c]) - 1 = IF PrintRaised(c) THEN idx[c] - 1 ELSE idx[c]

\* A call received two different messages, deleted both in the order
\* returned, and returned.
C10_Witness ==
    \E c \in Callers :
        /\ pc[c] = "returned" /\ Len(objects[c]) = 2 /\ Len(log[c]) = 3
        /\ objects[c][1][1] # objects[c][2][1]

----------------------------------------------------------------------------
(* Properties of the message's life *)

\* C2: with the main queue's redrive policy (dead-letter queue created
\* first, maxReceiveCount 3), each receive of a message raises its receive
\* count by one, up to 3; once the count is 3 and the window has ended the
\* message is in the dead-letter queue and no receive returns it: no
\* message is visible with a count of 3, and no delivery has a number
\* above 3.
C2_RedriveAfterThreeReceives ==
    /\ queues[QUEUE_MAIN].RedrivePolicy.deadLetterTargetArn = ARN(QUEUE_NAME_DEAD)
    /\ \A m \in DOMAIN msg :
        /\ msg[m].rc <= 3
        /\ msg[m].state = "visible" => msg[m].rc < 3
        /\ msg[m].state = "dead" => msg[m].rc = 3
        /\ msg[m].state = "inflight" => msg[m].rc >= 1
    /\ \A c \in Callers : \A r \in Range(objects[c]) :
        r[2] \in 1..3 /\ r[2] <= msg[r[1]].rc

\* A message was received three times, never deleted, and is dead-lettered;
\* a later call of process_queue received nothing.
C2_Witness ==
    \E m \in DOMAIN msg :
        /\ msg[m].state = "dead" /\ msg[m].rc = 3
        /\ \A k \in DOMAIN msg : k # m => msg[k].state = "unsent"
        /\ \E c \in Callers : pc[c] = "returned" /\ objects[c] = <<>>

\* C3: a message whose delete_message call returned is deleted for good: it
\* is neither visible nor in flight in any later state, so no receive
\* returns it, and no caller holds a delivery of it made after the delete.
C3_DeletedIsNeverReceived ==
    \A m \in acked :
        /\ msg[m].state = "deleted"
        /\ \A c \in Callers : \A r \in Range(objects[c]) : r[1] = m => r[2] <= msg[m].rc

\* A message was sent, received and deleted, and a later call of
\* process_queue is at work on the other message.
C3_Witness ==
    \E m \in acked, c \in Callers :
        /\ msg[m].state = "deleted"
        /\ pc[c] = "print" /\ \A r \in Range(objects[c]) : r[1] # m

\* What one step may do to a message when callers run concurrently.
C8_Step ==
    \A m \in DOMAIN msg :
        /\ msg'[m].rc # msg[m].rc =>
              /\ msg[m].state = "visible" /\ msg'[m].state = "inflight"
              /\ msg'[m].rc = msg[m].rc + 1
        /\ (msg[m].state = "inflight" /\ msg'[m].state \in {"visible", "dead"}) =>
              /\ msg[m].remaining <= TickSeconds
              /\ UNCHANGED callVars
        /\ (msg[m].state # "deleted" /\ msg'[m].state = "deleted") =>
              \E c \in Callers :
                  /\ pc[c] = "delete"
                  /\ objects[c][idx[c]] = <<m, msg[m].rc>>
                  /\ objects[c][idx[c]] \in Range(printed[c])
                  /\ msg[m].state = "inflight"
        /\ msg[m].state \in {"visible", "inflight"} =>
              msg'[m].state \in {"visible", "inflight", "deleted", "dead"}
        /\ msg[m].state \in {"deleted", "dead"} => msg'[m] = msg[m]

\* C8: with concurrent callers of process_queue, in every step: a receive
\* returns a message only if it is visible, never one that is in flight to
\* another caller; a message in flight becomes visible (or dead-lettered)
\* again only by time passing to its deadline, so two callers work on one
\* message only when the first outlasts the deadline; a message leaves the
\* queue only by the delete of a caller that holds its current receipt and
\* has processed it, or by redrive: none is lost before it is acknowledged.
C8_AtLeastOnce == [][C8_Step]_vars

\* Two callers are both at work on the same message: the first one's
\* delivery has expired, the second one's is current.
C8_Witness ==
    \E m \in DOMAIN msg, c1, c2 \in Callers :
        /\ c1 # c2
        /\ pc[c1] \in {"print", "delete"} /\ objects[c1][idx[c1]] = <<m, 1>>
        /\ pc[c2] \in {"print", "delete"} /\ objects[c2][idx[c2]] = <<m, 2>>
        /\ ValidReceipt(<<m, 2>>)

----------------------------------------------------------------------------
(* Properties of the visibility timeout *)

ChangedVisibility ==
    lastCall.op = "change_message_visibility_timeout" /\ lastCall.ok

\* C6: a change of visibility made before the receipt's deadline leaves the
\* message with one window, which ends `timeout` seconds after the call,
\* whatever time was left of the window before: after 5 and then 20, 20
\* seconds are left, not 25.
C6_VisibilityIsReplaced ==
    ChangedVisibility =>
        LET m == lastCall.receipt[1]
        IN IF lastCall.timeout > 0
           THEN /\ msg[m].state = "inflight"
                /\ msg[m].rc = lastCall.receipt[2]
                /\ msg[m].remaining = lastCall.timeout
           ELSE msg[m].state \in {"visible", "dead"} /\ msg[m].remaining = 0

\* The timeout of a delivery was set to 5 and then, at once, to 20: 20
\* seconds are left.
C6_Witness ==
    /\ ChangedVisibility
    /\ lastCall.prev = 5 /\ lastCall.timeout = 20
    /\ msg[lastCall.receipt[1]].remaining = 20

----------------------------------------------------------------------------
(* Properties of send_batch_messages *)

Malformed(msgs) == {i \in 1..Len(msgs) : msgs[i].malformed}

\* C5: a batch of N entries, 1 <= N <= 10, exactly one of them malformed:
\* the call returns (it does not raise), the response reports N-1 successes
\* and 1 failure, by Id, and the N-1 valid messages are in the queue, the
\* malformed one is not.
C5_BatchFailsPerEntry ==
    (/\ lastCall.op = "send_batch_messages"
     /\ Len(lastCall.msgs) \in 1..10
     /\ Cardinality(Malformed(lastCall.msgs)) = 1) =>
        LET msgs == lastCall.msgs
            bad == CHOOSE i \in Malformed(msgs) : TRUE
        IN /\ lastCall.ok
           /\ Len(lastCall.Successful) = Len(msgs) - 1
           /\ lastCall.Failed = <<msgs[bad].Id>>
           /\ Range(lastCall.Successful) = {msgs[i].Id : i \in (1..Len(msgs)) \ {bad}}
           /\ \A i \in 1..Len(msgs) :
                 msg[msgs[i].Id].state = IF i = bad THEN "failed" ELSE "visible"

\* A batch of 10 entries, the 4th malformed, was sent: 9 successes, 1 failure.
C5_Witness ==
    /\ lastCall.op = "send_batch_messages"
    /\ Len(lastCall.msgs) = 10 /\ Malformed(lastCall.msgs) = {4}
    /\ lastCall.ok /\ Len(lastCall.Successful) = 9 /\ Len(lastCall.Failed) = 1

----------------------------------------------------------------------------
(* Properties of the queues *)

CreatedWithDeadLetter == lastCall.op = "sqs_create_queue_dead_dependency"

\* C4 as stated: the creation of a queue with a redrive policy fails exactly
\* if the target queue is unresolved or maxReceiveCount < 1.
C4_FailsIffUnresolvedOrInvalid ==
    CreatedWithDeadLetter =>
        (~lastCall.ok <=>
            (~lastCall.pre.queues[lastCall.target].exists \/ MAX_RECEIVE_COUNT < 1))

\* C4 as amended: the creation of a queue with a redrive policy fails
\* exactly if the target queue is unresolved, or maxReceiveCount < 1 (never:
\* the program fixes it at 3), or the service refuses the creation (the name
\* was deleted within the last 60 seconds, or is in use by a queue with
\* other attributes); when it succeeds the queue's policy carries the
\* target queue's ARN and the maxReceiveCount 3, and when it fails no queue
\* has changed.
C4_Amended ==
    CreatedWithDeadLetter =>
        LET pre == lastCall.pre
            wanted == [exists |-> TRUE,
                       RedrivePolicy |-> [deadLetterTargetArn |-> ARN(lastCall.target),
                                          maxReceiveCount |-> 3]]
        IN /\ ~lastCall.ok <=>
                \/ ~pre.queues[lastCall.target].exists
                \/ MAX_RECEIVE_COUNT < 1
                \/ lastCall.name \in pre.cooldown
                \/ pre.queues[lastCall.name].exists /\ pre.queues[lastCall.name] # wanted
           /\ lastCall.ok => queues = [pre.queues EXCEPT ![lastCall.name] = wanted]
           /\ ~lastCall.ok => queues = pre.queues

\* The target queue exists and the creation is refused: the name of the new
\* queue was deleted less than 60 seconds ago.
C4_Witness ==
    /\ CreatedWithDeadLetter /\ ~lastCall.ok
    /\ lastCall.pre.queues[lastCall.target].exists
    /\ lastCall.name \in lastCall.pre.cooldown

\* C7: a call that failed has changed nothing: no queue is deleted or
\* created, no cool-down started.
C7_FailedCallChangesNothing ==
    (lastCall.op \in {"sqs_create_queue", "sqs_create_queue_dead_dependency",
                      "sqs_delete_queue"} /\ ~lastCall.ok) =>
        /\ queues = lastCall.pre.queues
        /\ cooldown = lastCall.pre.cooldown

HasPolicy(n) == queues[n].exists /\ queues[n].RedrivePolicy # NoPolicy

\* C9 as stated: in every state, the redrive policy of each queue that has
\* one names the ARN of a queue that exists.
C9_PolicyTargetExists ==
    \A n \in QueueNames :
        HasPolicy(n) =>
            \E t \in QueueNames :
                queues[t].exists /\ queues[n].RedrivePolicy.deadLetterTargetArn = ARN(t)

\* C9 as amended: the redrive policy of each queue that has one names the
\* ARN of a queue that was created before the policy was constructed, and
\* that exists when the policy is constructed; sqs_delete_queue may delete
\* that queue later, and the policy then names a queue that no longer
\* exists.
C9_Amended ==
    /\ \A n \in QueueNames :
          HasPolicy(n) =>
              \E t \in everCreated : queues[n].RedrivePolicy.deadLetterTargetArn = ARN(t)
    /\ (CreatedWithDeadLetter /\ lastCall.ok) =>
          /\ queues[lastCall.target].exists
          /\ queues[lastCall.name].RedrivePolicy.deadLetterTargetArn = ARN(lastCall.target)

\* The main queue's policy names the dead-letter queue, which was deleted
\* after the main queue was created.
C9_Witness ==
    /\ HasPolicy(QUEUE_MAIN)
    /\ queues[QUEUE_MAIN].RedrivePolicy.deadLetterTargetArn = ARN(QUEUE_NAME_DEAD)
    /\ ~queues[QUEUE_NAME_DEAD].exists
    /\ QUEUE_NAME_DEAD \in everCreated

====
